---- MODULE Spec2Model ----
(***************************************************************************)
(* django_forge_ai: the agent orchestrator (agents/orchestrator.py,        *)
(* agents/models.py) and the embedding pipeline (tasks.py,                 *)
(* rag_system/models.py, rag_system/vector_utils.py) as state machines,    *)
(* with the KnowledgeBase table and semantic_search (rag_system/mixins.py).*)
(*                                                                         *)
(* Text is a sequence of tokens: the marker "TOOL_CALL:", the characters   *)
(* "(", ")", " " and "\n", and words.  A document's content is its length; *)
(* a slice content[s:e] is the pair <<s, e>> of its clipped offsets.       *)
(***************************************************************************)
EXTENDS Integers, Sequences, FiniteSets, Bags, TLC

VARIABLES
    \* ---- agents ----
    agent,                  \* the AgentConfig row: max_iterations, tools
    task,                   \* the AgentTask row: status, result, error, iterations_used
    taskLogs,               \* the AgentTaskLog rows, in creation order
    pc,                     \* per worker: where execute_task stands
    iteration,              \* per worker: the loop variable of _agent_loop
    conversation_history,   \* per worker: the list _agent_loop keeps
    response,               \* per worker: the last gateway response
    tool_call,              \* per worker: what _extract_tool_call returned
    tool_exc,               \* per worker: the exception _execute_tool caught last
    logBase,                \* per worker: the number of log rows when this execution began
    result,                 \* per worker: the value _agent_loop returned
    exc,                    \* per worker: the exception caught by execute_task
    outcome,                \* per worker: what execute_task gave its caller
    llmCalls,               \* per worker: generate() calls of this execution
    cancelSeen,             \* per worker: iteration at which a cancel was written (0: none)
    executions,             \* execute_task invocations so far
    gatewayCalls,           \* per worker: the arguments of the generate() calls of this execution
    \* ---- rag ----
    kb,                     \* the KnowledgeBase row: vector_db_type
    document,               \* the Document rows
    chunkRows,              \* the DocumentChunk rows (a bag)
    vectorStore,            \* the collection of the vector index: a set of points
    ipc,                    \* per run: where generate_embeddings_task stands
    runDoc,                 \* per run: document_id
    mem,                    \* per run: the in-memory Document instance
    chunks,                 \* per run: the list _chunk_text returned
    idx,                    \* per run: the loop variable i
    embedCalls,             \* per run: embed() calls of this run
    fault,                  \* per run: the gateway / vector store failure of this run
    caught,                 \* per run: the exception the except clause caught
    runOutcome,             \* per run: how the task ended for its caller
    rerun,                  \* per run: started on a failed document that kept chunk rows
    runs,                   \* generate_embeddings_task invocations so far
    call,                   \* the last call a client made on the connector of kb
    \* ---- knowledge bases ----
    kbTable,                \* the KnowledgeBase rows, by primary key
    kbClock,                \* the time of the last insert (created_at)
    form,                   \* per admin request: the validated form waiting for its save
    search,                 \* the last semantic_search call without a name
    \* ---- chunker ----
    chunker                 \* one call of _chunk_text: its arguments and locals

agentVars ==
    <<agent, task, taskLogs, pc, iteration, conversation_history, response,
      tool_call, tool_exc, logBase, result, exc, outcome, llmCalls, cancelSeen,
      executions, gatewayCalls>>

kbVars == <<kbTable, kbClock, form, search>>

ragVars ==
    <<kb, document, chunkRows, vectorStore, ipc, runDoc, mem, chunks, idx,
      embedCalls, fault, caught, runOutcome, rerun, runs, call, kbVars>>

vars == <<agentVars, ragVars, chunker>>

\* ---------------------------------------------------------------- bounds

MaxIterations == 2
MaxExecutions == 2
MaxRuns == 2
MaxTextLen == 6
MaxChunkSize == 3

Workers == {"w1"}
Runs == {"r1", "r2"}
Docs == {1, 2}
KbIds == {1, 2}
Admins == {"s1", "s2"}

\* ------------------------------------------------------------------ text

Range(s) == {s[i] : i \in 1..Len(s)}

Whitespace == {" ", "\n"}

\* Position of the first token t of s, 0 when there is none.
IndexOf(s, t) ==
    IF t \in Range(s)
    THEN CHOOSE i \in 1..Len(s) : s[i] = t /\ \A j \in 1..(i - 1) : s[j] # t
    ELSE 0

\* s.split(t)[0]
SplitFirst(s, t) ==
    IF IndexOf(s, t) = 0 THEN s ELSE SubSeq(s, 1, IndexOf(s, t) - 1)

\* s.split(t)[1], for s that holds t: the text between its first two t
SplitSecond(s, t) ==
    SplitFirst(SubSeq(s, IndexOf(s, t) + 1, Len(s)), t)

RECURSIVE LStrip(_)
LStrip(s) ==
    IF s # <<>> /\ Head(s) \in Whitespace THEN LStrip(Tail(s)) ELSE s

RECURSIVE RStrip(_)
RStrip(s) ==
    IF s # <<>> /\ s[Len(s)] \in Whitespace
    THEN RStrip(SubSeq(s, 1, Len(s) - 1))
    ELSE s

\* s.strip()
Strip(s) == RStrip(LStrip(s))

None == [found |-> FALSE, tool |-> <<>>, args |-> <<>>]

NoException == [is |-> FALSE, msg |-> <<>>]

Exception(m) == [is |-> TRUE, msg |-> m]

\* ---------------------------------------------------------------- agents

RecognizedTools == {"web_search", "database_query", "file_read"}

\* The tool list of the configuration: a recognized and an unrecognized name.
ToolLists == {<<"web_search", "calculator">>}

\* AgentConfig.temperature: its default 0.7, in tenths
DefaultTemperature == 7

\* AgentConfig.clean: no ValidationError (temperature in tenths)
AgentConfigClean(cfg) ==
    /\ ~(cfg.temperature < 0 \/ cfg.temperature > 20)
    /\ ~(cfg.max_iterations < 1)

\* What the gateway's generate() answers.
Responses ==
    { <<"The", " ", "answer">>,
      <<"TOOL_CALL:", " ", "web_search", "(", "foo", ")">>,
      <<"TOOL_CALL:", " ", "web_search", "(", "foo">>,
      <<"I", " ", "call", "\n", "TOOL_CALL:", " ", "database_query", "\n", "now">> }

\* One more answer: a tool the configuration lists and _initialize_tools does
\* not recognize.
MoreResponses == { <<"TOOL_CALL:", " ", "calculator", "(", "1", ")">> }

\* Every answer of the gateway, the one naming the unrecognized tool included.
AllResponses == Responses \cup MoreResponses

GatewayError == <<"gateway", " ", "unavailable">>

\* A variant that gives every recognized name a callable.
InitializeToolsAllRecognized(cfg) == RecognizedTools

\* AgentOrchestrator._initialize_tools: the names that got a callable
InitializeTools(cfg) == {t \in Range(cfg.tools) : t \in RecognizedTools}

\* AgentOrchestrator._build_initial_prompt (the task has no context)
BuildInitialPrompt == <<"Task: ", "describe", "\n">>

\* AgentOrchestrator._build_system_prompt (no custom system_prompt): the
\* default text with the names of the tool list
BuildSystemPrompt(cfg) ==
    <<"You are ", "agent", "\n", "Available tools:">> \o cfg.tools

\* _get_agent_response: the arguments of llm_client.generate
GenerateArguments(w) ==
    [prompt |-> conversation_history[w][Len(conversation_history[w])].content,
     system_prompt |-> BuildSystemPrompt(agent),
     temperature |-> agent.temperature]

\* AgentOrchestrator._extract_tool_call
ExtractToolCall(resp) ==
    IF "TOOL_CALL:" \notin Range(resp)
    THEN None
    ELSE LET parts == SplitFirst(Strip(SplitSecond(resp, "TOOL_CALL:")), "\n")
             tool_name == Strip(SplitFirst(parts, "("))
             args_str == IF "(" \in Range(parts)
                         THEN SplitFirst(SplitSecond(parts, "("), ")")
                         ELSE <<>>
         IN [found |-> TRUE, tool |-> tool_name, args |-> args_str]

\* AgentOrchestrator._web_search / _database_query / _file_read
RunTool(name, args) ==
    CASE name = "web_search" ->
            <<"Web search results for: ">> \o args \o <<" (placeholder)">>
      [] name = "database_query" ->
            <<"Database query results for: ">> \o args \o <<" (placeholder)">>
      [] OTHER ->
            <<"Error reading file: ">> \o args

\* What a tool callable raises when it raises.
ToolError == <<"tool", " ", "raised">>

\* A variant that looks the name up among the recognized names.
ToolRecognized(tc) == Len(tc.tool) = 1 /\ tc.tool[1] \in RecognizedTools

\* AgentOrchestrator._execute_tool: tool_name not in self.tools, negated
ToolAvailable(tc) == Len(tc.tool) = 1 /\ tc.tool[1] \in InitializeTools(agent)

\* The ways the call self.tools[tool_name](args) can end: it returns
\* (NoException) or it raises.  An unavailable tool is not called.
ToolOutcomes(tc) ==
    IF ToolAvailable(tc) THEN {NoException, Exception(ToolError)} ELSE {NoException}

\* AgentOrchestrator._execute_tool: the text it returns, e the way the call ended
ExecuteToolResult(tc, e) ==
    IF ~ToolAvailable(tc)
    THEN <<"Error: Tool '">> \o tc.tool \o <<"' not available">>
    ELSE IF e.is
         THEN <<"Error executing tool ">> \o tc.tool \o <<": ">> \o e.msg
         ELSE RunTool(tc.tool[1], tc.args)

\* A variant whose except clause creates no row.
ExecuteToolLogsNoErrorRow(tc, iter, e) ==
    IF ~ToolAvailable(tc) \/ e.is
    THEN <<>>
    ELSE << [iteration |-> iter,
             action |-> <<"tool_">> \o tc.tool,
             observation |-> ExecuteToolResult(tc, e)] >>

\* AgentOrchestrator._execute_tool: the log rows it creates
ExecuteToolLogs(tc, iter, e) ==
    IF ~ToolAvailable(tc)
    THEN <<>>
    ELSE IF e.is
         THEN << [iteration |-> iter,
                  action |-> <<"tool_">> \o tc.tool \o <<"_error">>,
                  observation |-> ExecuteToolResult(tc, e)] >>
         ELSE << [iteration |-> iter,
                  action |-> <<"tool_">> \o tc.tool,
                  observation |-> ExecuteToolResult(tc, e)] >>

\* A variant that numbers the row with the round before.
LlmResponseLogRoundBefore(iter, resp) ==
    [iteration |-> iter - 1, action |-> <<"llm_response">>, observation |-> resp]

\* AgentOrchestrator._get_agent_response: the llm_response row
LlmResponseLog(iter, resp) ==
    [iteration |-> iter, action |-> <<"llm_response">>, observation |-> resp]

\* A variant that queues the tool result before the assistant's message.
UpdateConversationUserFirst(history, resp, tool_result) ==
    history \o << [role |-> "user", content |-> <<"Tool result: ">> \o tool_result],
                  [role |-> "assistant", content |-> resp] >>

\* AgentOrchestrator._update_conversation_with_tool_result
UpdateConversation(history, resp, tool_result) ==
    history \o << [role |-> "assistant", content |-> resp],
                  [role |-> "user", content |-> <<"Tool result: ">> \o tool_result] >>

\* A variant of the loop bound that admits one more round.
LoopContinuesOffByOne(iter) == iter <= agent.max_iterations + 1

\* _agent_loop: for iteration in range(1, max_iterations + 1)
LoopContinues(iter) == iter <= agent.max_iterations

\* A variant that records the number of the next round.
UpdateTaskIterationNext(t, iter) == [t EXCEPT !.iterations_used = iter + 1]

\* AgentOrchestrator._update_task_iteration
UpdateTaskIteration(t, iter) == [t EXCEPT !.iterations_used = iter]

\* AgentTask.mark_running: no look at the current status
MarkRunning(t) == [t EXCEPT !.status = "running"]

\* A variant that writes the status and leaves the result as it was.
MarkCompletedNoResult(t, res) == [t EXCEPT !.status = "completed"]

\* AgentTask.mark_completed
MarkCompleted(t, res) == [t EXCEPT !.status = "completed", !.result = res]

\* A variant that writes the wrong status.
MarkFailedAsCompleted(t, err) == [t EXCEPT !.status = "completed", !.error = err]

\* AgentTask.mark_failed
MarkFailed(t, err) == [t EXCEPT !.status = "failed", !.error = err]

InFlight(w) == pc[w] \notin {"idle", "done"}

\* execute_task up to the first gateway call: mark_running, the prompts, the
\* head of the loop.
ExecuteTask(w) ==
    /\ pc[w] \in {"idle", "done"}
    /\ executions < MaxExecutions
    /\ executions' = executions + 1
    /\ task' = MarkRunning(task)
    /\ conversation_history' =
          [conversation_history EXCEPT
              ![w] = << [role |-> "user", content |-> BuildInitialPrompt] >>]
    /\ iteration' = [iteration EXCEPT ![w] = 1]
    /\ response' = [response EXCEPT ![w] = <<>>]
    /\ tool_call' = [tool_call EXCEPT ![w] = None]
    /\ tool_exc' = [tool_exc EXCEPT ![w] = NoException]
    /\ logBase' = [logBase EXCEPT ![w] = Len(taskLogs)]
    /\ exc' = [exc EXCEPT ![w] = NoException]
    /\ outcome' = [outcome EXCEPT ![w] = [returned |-> <<>>, raised |-> NoException]]
    /\ llmCalls' = [llmCalls EXCEPT ![w] = 0]
    /\ gatewayCalls' = [gatewayCalls EXCEPT ![w] = <<>>]
    /\ cancelSeen' = [cancelSeen EXCEPT ![w] = 0]
    /\ IF LoopContinues(1)
       THEN /\ pc' = [pc EXCEPT ![w] = "loop"]
            /\ result' = [result EXCEPT ![w] = <<>>]
       ELSE /\ pc' = [pc EXCEPT ![w] = "mark_completed"]
            /\ result' = [result EXCEPT ![w] = BuildInitialPrompt]
    /\ UNCHANGED <<agent, taskLogs, ragVars, chunker>>

\* One round of _agent_loop up to the branch on tool_call: generate() answers,
\* _get_agent_response creates the llm_response row, _extract_tool_call parses
\* the answer; with no tool call, _update_task_iteration and return response.
GetAgentResponseFrom(w, answers) ==
    /\ pc[w] = "loop"
    /\ llmCalls' = [llmCalls EXCEPT ![w] = @ + 1]
    /\ gatewayCalls' = [gatewayCalls EXCEPT ![w] = Append(@, GenerateArguments(w))]
    /\ \E resp \in answers :
          /\ response' = [response EXCEPT ![w] = resp]
          /\ taskLogs' = Append(taskLogs, LlmResponseLog(iteration[w], resp))
          /\ tool_call' = [tool_call EXCEPT ![w] = ExtractToolCall(resp)]
          /\ IF ExtractToolCall(resp).found
             THEN /\ pc' = [pc EXCEPT ![w] = "execute_tool"]
                  /\ UNCHANGED <<task, result>>
             ELSE /\ task' = UpdateTaskIteration(task, iteration[w])
                  /\ result' = [result EXCEPT ![w] = resp]
                  /\ pc' = [pc EXCEPT ![w] = "mark_completed"]
    /\ UNCHANGED <<agent, iteration, conversation_history, tool_exc, logBase,
                   exc, outcome, cancelSeen, executions, ragVars, chunker>>

GetAgentResponse(w) == GetAgentResponseFrom(w, Responses)

\* _get_agent_response: generate() raises; execute_task catches it.
GatewayFails(w) ==
    /\ pc[w] = "loop"
    /\ llmCalls' = [llmCalls EXCEPT ![w] = @ + 1]
    /\ gatewayCalls' = [gatewayCalls EXCEPT ![w] = Append(@, GenerateArguments(w))]
    /\ exc' = [exc EXCEPT ![w] = Exception(GatewayError)]
    /\ pc' = [pc EXCEPT ![w] = "mark_failed"]
    /\ UNCHANGED <<agent, task, taskLogs, iteration, conversation_history,
                   response, tool_call, tool_exc, logBase, result, outcome,
                   cancelSeen, executions, ragVars, chunker>>

\* The tool branch of the round: _execute_tool (with its log row),
\* _update_conversation_with_tool_result, _update_task_iteration, and the head
\* of the next round (or the return that follows the loop).
ExecuteToolEnding(w, e) ==
    /\ pc[w] = "execute_tool"
    /\ e \in ToolOutcomes(tool_call[w])
    /\ tool_exc' = [tool_exc EXCEPT ![w] = e]
    /\ taskLogs' = taskLogs \o ExecuteToolLogs(tool_call[w], iteration[w], e)
    /\ conversation_history' =
          [conversation_history EXCEPT
              ![w] = UpdateConversation(@, response[w],
                                        ExecuteToolResult(tool_call[w], e))]
    /\ task' = UpdateTaskIteration(task, iteration[w])
    /\ iteration' = [iteration EXCEPT ![w] = @ + 1]
    /\ IF LoopContinues(iteration[w] + 1)
       THEN /\ pc' = [pc EXCEPT ![w] = "loop"]
            /\ UNCHANGED result
       ELSE /\ pc' = [pc EXCEPT ![w] = "mark_completed"]
            /\ result' =
                  [result EXCEPT
                      ![w] = conversation_history'[w][Len(conversation_history'[w])].content]
    /\ UNCHANGED <<agent, gatewayCalls, response, tool_call, logBase, exc, outcome, llmCalls,
                   cancelSeen, executions, ragVars, chunker>>

\* The tool branch with the tool returning (or not available): the three
\* callables of _initialize_tools return a text and never raise.
ExecuteTool(w) == ExecuteToolEnding(w, NoException)

\* The tool branch with a tool callable that raises: the except clause of
\* _execute_tool.
ExecuteToolRaising(w) == ExecuteToolEnding(w, Exception(ToolError))

\* execute_task: task.mark_completed(result); return result
CompleteTask(w) ==
    /\ pc[w] = "mark_completed"
    /\ task' = MarkCompleted(task, result[w])
    /\ outcome' = [outcome EXCEPT ![w] = [returned |-> result[w], raised |-> NoException]]
    /\ pc' = [pc EXCEPT ![w] = "done"]
    /\ UNCHANGED <<agent, gatewayCalls, taskLogs, iteration, conversation_history, response,
                   tool_call, tool_exc, logBase, result, exc, llmCalls, cancelSeen,
                   executions, ragVars, chunker>>

\* execute_task: except Exception as e: task.mark_failed(str(e)); raise
FailTask(w) ==
    /\ pc[w] = "mark_failed"
    /\ task' = MarkFailed(task, exc[w].msg)
    /\ outcome' = [outcome EXCEPT ![w] = [returned |-> <<>>, raised |-> exc[w]]]
    /\ pc' = [pc EXCEPT ![w] = "done"]
    /\ UNCHANGED <<agent, gatewayCalls, taskLogs, iteration, conversation_history, response,
                   tool_call, tool_exc, logBase, result, exc, llmCalls, cancelSeen,
                   executions, ragVars, chunker>>

\* The external write of status = 'cancelled' on a task that is not terminal.
CancelTask ==
    /\ task.status \in {"pending", "running"}
    /\ task' = [task EXCEPT !.status = "cancelled"]
    /\ cancelSeen' = [w \in Workers |->
                         IF InFlight(w) /\ cancelSeen[w] = 0
                         THEN iteration[w] ELSE cancelSeen[w]]
    /\ UNCHANGED <<agent, gatewayCalls, taskLogs, pc, iteration, conversation_history,
                   response, tool_call, tool_exc, logBase, result, exc, outcome,
                   llmCalls, executions, ragVars, chunker>>

\* The values a stored AgentConfig can hold: the fields are an IntegerField
\* and a FloatField (here in tenths) with no validators.
StorableConfigs ==
    [max_iterations : 0..MaxIterations, tools : ToolLists,
     temperature : {-1, DefaultTemperature, 21}]

\* AgentConfig.objects.create(...) or save() with the values of cfg, before
\* the task is executed: Model.save() does not call clean().
SaveAgentConfig(cfg) ==
    /\ \A w \in Workers : pc[w] = "idle"
    /\ agent' = cfg
    /\ UNCHANGED <<task, taskLogs, pc, iteration, conversation_history,
                   response, tool_call, tool_exc, logBase, result, exc, outcome,
                   llmCalls, cancelSeen, executions, gatewayCalls, ragVars,
                   chunker>>

AgentConfigs ==
    {cfg \in [max_iterations : 0..MaxIterations, tools : ToolLists,
              temperature : {DefaultTemperature}] :
        AgentConfigClean(cfg)}

\* ------------------------------------------------------------------- rag

DJANGO_FORGE_AI_RAG_CHUNK_SIZE == 1000

DJANGO_FORGE_AI_RAG_CHUNK_OVERLAP == 200

\* The content lengths a document takes here: empty, one chunk, two chunks,
\* three chunks.
DocLengths == {0, 500, 1200, 1700}

VectorDbTypes == {"chroma", "qdrant", "pgvector"}

Min(a, b) == IF a < b THEN a ELSE b

\* _chunk_text from offset start on: the slices text[start:end], each the pair
\* of its offsets clipped to the text.
RECURSIVE ChunkTextFrom(_, _, _, _)
ChunkTextFrom(start, len, chunk_size, chunk_overlap) ==
    IF start < len
    THEN <<  <<start, Min(start + chunk_size, len)>>  >>
         \o ChunkTextFrom(start + chunk_size - chunk_overlap, len,
                          chunk_size, chunk_overlap)
    ELSE <<>>

\* _chunk_text
ChunkText(len, chunk_size, chunk_overlap) ==
    ChunkTextFrom(0, len, chunk_size, chunk_overlap)

\* A variant that numbers the chunks from one.
ChunkRowOneBased(d, i, chunk_text, content_len) ==
    [document |-> d,
     chunk_index |-> i + 1,
     content |-> chunk_text,
     start_char |-> i * DJANGO_FORGE_AI_RAG_CHUNK_SIZE,
     end_char |-> Min((i + 1) * DJANGO_FORGE_AI_RAG_CHUNK_SIZE, content_len)]

\* The DocumentChunk row generate_embeddings_task creates for chunk i.
ChunkRow(d, i, chunk_text, content_len) ==
    [document |-> d,
     chunk_index |-> i,
     content |-> chunk_text,
     start_char |-> i * DJANGO_FORGE_AI_RAG_CHUNK_SIZE,
     end_char |-> Min((i + 1) * DJANGO_FORGE_AI_RAG_CHUNK_SIZE, content_len)]

\* A variant without the constraint.
UniqueTogetherNotEnforced(rows, row) == FALSE

\* DocumentChunk.Meta.unique_together: the insert of row is refused.
UniqueTogetherViolated(rows, row) ==
    \E x \in BagToSet(rows) :
        x.document = row.document /\ x.chunk_index = row.chunk_index

\* The id generate_embeddings_task gives the vector of chunk i of document d.
VectorId(d, i) == <<"doc_", d, "_chunk_", i>>

\* The batch handed to connector.add_embeddings: one entry per chunk object,
\* in chunk order.
VectorBatch(d, chunk_list) ==
    [i \in 1..Len(chunk_list) |->
        [id |-> VectorId(d, i - 1),
         text |-> chunk_list[i],
         document_id |-> d,
         chunk_index |-> i - 1]]

\* ChromaDBConnector.add_embeddings: collection.add under the ids given.
ChromaAdd(store, batch) ==
    store \cup {[id |-> batch[i].id, text |-> batch[i].text,
                 document_id |-> batch[i].document_id,
                 chunk_index |-> batch[i].chunk_index] :
                   i \in {j \in 1..Len(batch) :
                            \A p \in store : p.id # batch[j].id}}

\* QdrantConnector.add_embeddings: upsert of PointStruct(id=i, ...), i the
\* position in the batch.
QdrantUpsert(store, batch) ==
    {p \in store : \A i \in 1..Len(batch) : p.id # <<i - 1>>}
    \cup {[id |-> <<i - 1>>, text |-> batch[i].text,
           document_id |-> batch[i].document_id,
           chunk_index |-> batch[i].chunk_index] : i \in 1..Len(batch)}

NotImplemented == <<"PGVector integration requires custom Django models">>

IntegrityError == <<"UNIQUE constraint failed: document, chunk_index">>

EmbedError == <<"embedding", " ", "failed">>

StoreError == <<"vector store", " ", "unreachable">>

SearchNotImplemented == <<"PGVector search not yet implemented">>

DeleteNotImplemented == <<"PGVector delete not yet implemented">>

\* KnowledgeBase.collection_name: its default
CollectionName == "default"

\* A variant of PGVectorConnector.add_embeddings that returns and stores
\* nothing.
PGVectorAddEmbeddingsNoOp(store, batch) ==
    [raised |-> NoException, store |-> store]

\* PGVectorConnector.add_embeddings: raise NotImplementedError
PGVectorAddEmbeddings(store, batch) ==
    [raised |-> Exception(NotImplemented), store |-> store]

\* connector.add_embeddings of the connector get_vector_db_connector returns
\* for vector_db_type: how the call ends and the collection it leaves.
ConnectorAddEmbeddings(vector_db_type, store, batch) ==
    CASE vector_db_type = "chroma" ->
            [raised |-> NoException, store |-> ChromaAdd(store, batch)]
      [] vector_db_type = "qdrant" ->
            [raised |-> NoException, store |-> QdrantUpsert(store, batch)]
      [] OTHER -> PGVectorAddEmbeddings(store, batch)

\* search(query_embedding, top_k: int = 5, filter = None)
DefaultTopK == 5

TopKs == {1, DefaultTopK}

\* filter = None, or filter = {'document_id': d}
NoFilter == <<>>

Filters == {NoFilter} \cup {<<d>> : d \in Docs}

\* The query vectors: one nearest the first chunks, one nearest the last.
Queries == {"near_first", "near_last"}

\* The members of the collection the where clause / query_filter keeps.
Matching(store, filter) ==
    {p \in store : filter = NoFilter \/ p.document_id = filter[1]}

\* The distance of the vector of p from the query vector.
Distance(p, query) ==
    IF query = "near_first" THEN 10 * p.document_id + p.chunk_index
                            ELSE 100 - (10 * p.document_id + p.chunk_index)

\* The members by ascending distance.
RECURSIVE Ranked(_, _)
Ranked(points, query) ==
    IF points = {} THEN <<>>
    ELSE LET p == CHOOSE x \in points :
                      \A y \in points : Distance(x, query) <= Distance(y, query)
         IN <<p>> \o Ranked(points \ {p}, query)

\* collection.query(n_results=top_k, where=where) and
\* client.search(limit=top_k, query_filter=query_filter): the top_k nearest
\* of the matching members, fewer when fewer match.
BackendQuery(store, query, top_k, filter) ==
    LET ranked == Ranked(Matching(store, filter), query)
    IN SubSeq(ranked, 1, Min(top_k, Len(ranked)))

\* A variant that formats the results last to first.
FormatResultsReversed(results) ==
    [i \in 1..Len(results) |->
        [id |-> results[Len(results) + 1 - i].id,
         text |-> results[Len(results) + 1 - i].text,
         metadata |-> [document_id |-> results[Len(results) + 1 - i].document_id,
                       chunk_index |-> results[Len(results) + 1 - i].chunk_index]]]

\* search: one formatted entry per result the backend returned, in its order.
FormatResults(results) ==
    [i \in 1..Len(results) |->
        [id |-> results[i].id,
         text |-> results[i].text,
         metadata |-> [document_id |-> results[i].document_id,
                       chunk_index |-> results[i].chunk_index]]]

\* connector.search: ChromaDBConnector and QdrantConnector query the
\* collection and return the formatted results; PGVectorConnector raises.
ConnectorSearch(vector_db_type, store, query, top_k, filter) ==
    IF vector_db_type = "pgvector"
    THEN [raised |-> Exception(SearchNotImplemented), store |-> store,
          results |-> <<>>]
    ELSE [raised |-> NoException, store |-> store,
          results |-> FormatResults(BackendQuery(store, query, top_k, filter))]

\* QdrantConnector.delete: int(id_str) succeeds for an id of digits only.
IsIntId(id) == Len(id) = 1

\* connector.delete(ids): ChromaDBConnector deletes the entries under the
\* ids; QdrantConnector deletes the points whose number an id spells and
\* skips the other ids; PGVectorConnector raises.
ConnectorDelete(vector_db_type, store, ids) ==
    CASE vector_db_type = "chroma" ->
            [raised |-> NoException, store |-> {p \in store : p.id \notin ids}]
      [] vector_db_type = "qdrant" ->
            [raised |-> NoException,
             store |-> {p \in store : p.id \notin {id \in ids : IsIntId(id)}}]
      [] OTHER ->
            [raised |-> Exception(DeleteNotImplemented), store |-> store]

\* connector.get_collection_info(): the mapping it returns
GetCollectionInfo(vector_db_type, store) ==
    CASE vector_db_type = "chroma" ->
            [name |-> CollectionName, count |-> Cardinality(store), type |-> "chroma"]
      [] vector_db_type = "qdrant" ->
            [name |-> CollectionName, count |-> Cardinality(store), type |-> "qdrant"]
      [] OTHER ->
            [name |-> CollectionName, type |-> "pgvector"]

\* generate_embeddings_task: document.embedding_status = 'processing'
StartProcessing(m) == [m EXCEPT !.embedding_status = "processing"]

RowsOf(d) == {x \in BagToSet(chunkRows) : x.document = d}

\* generate_embeddings_task up to the loop over the chunks: the document is
\* loaded, saved as processing, and chunked.
StartIngest(r, d) ==
    /\ ipc[r] \in {"idle", "done"}
    /\ runs < MaxRuns
    /\ runs' = runs + 1
    /\ runDoc' = [runDoc EXCEPT ![r] = d]
    /\ mem' = [mem EXCEPT ![r] = StartProcessing(document[d])]
    /\ document' = [document EXCEPT ![d] = StartProcessing(document[d])]
    /\ chunks' = [chunks EXCEPT
                     ![r] = ChunkText(document[d].content_len,
                                      DJANGO_FORGE_AI_RAG_CHUNK_SIZE,
                                      DJANGO_FORGE_AI_RAG_CHUNK_OVERLAP)]
    /\ idx' = [idx EXCEPT ![r] = 0]
    /\ embedCalls' = [embedCalls EXCEPT ![r] = 0]
    /\ fault' = [fault EXCEPT ![r] = "none"]
    /\ caught' = [caught EXCEPT ![r] = NoException]
    /\ runOutcome' = [runOutcome EXCEPT ![r] = "none"]
    /\ rerun' = [rerun EXCEPT
                    ![r] = /\ document[d].embedding_status = "failed"
                           /\ RowsOf(d) # {}
                           /\ \A q \in Runs \ {r} :
                                 runDoc[q] = d => ipc[q] \in {"idle", "done"}]
    /\ ipc' = [ipc EXCEPT ![r] = "embedding"]
    /\ UNCHANGED <<kb, chunkRows, vectorStore, call, kbVars, agentVars, chunker>>

\* One round of the loop: embed() answers and DocumentChunk.objects.create
\* inserts the row, or the unique constraint refuses it.
EmbedChunk(r) ==
    /\ ipc[r] = "embedding"
    /\ idx[r] < Len(chunks[r])
    /\ embedCalls' = [embedCalls EXCEPT ![r] = @ + 1]
    /\ LET row == ChunkRow(runDoc[r], idx[r], chunks[r][idx[r] + 1],
                           mem[r].content_len)
       IN IF UniqueTogetherViolated(chunkRows, row)
          THEN /\ caught' = [caught EXCEPT ![r] = Exception(IntegrityError)]
               /\ ipc' = [ipc EXCEPT ![r] = "except"]
               /\ UNCHANGED <<chunkRows, idx>>
          ELSE /\ chunkRows' = chunkRows (+) SetToBag({row})
               /\ idx' = [idx EXCEPT ![r] = @ + 1]
               /\ UNCHANGED <<caught, ipc>>
    /\ UNCHANGED <<kb, document, vectorStore, runDoc, mem, chunks, fault,
                   rerun, runOutcome, runs, call, kbVars, agentVars, chunker>>

\* One round of the loop: embed() raises.
EmbedFails(r) ==
    /\ ipc[r] = "embedding"
    /\ idx[r] < Len(chunks[r])
    /\ embedCalls' = [embedCalls EXCEPT ![r] = @ + 1]
    /\ fault' = [fault EXCEPT ![r] = "embed"]
    /\ caught' = [caught EXCEPT ![r] = Exception(EmbedError)]
    /\ ipc' = [ipc EXCEPT ![r] = "except"]
    /\ UNCHANGED <<kb, document, chunkRows, vectorStore, runDoc, mem, chunks,
                   idx, rerun, runOutcome, runs, call, kbVars, agentVars, chunker>>

\* After the loop: get_vector_db_connector, connect, add_embeddings.
AddEmbeddings(r) ==
    /\ ipc[r] = "embedding"
    /\ idx[r] = Len(chunks[r])
    /\ LET out == ConnectorAddEmbeddings(kb.vector_db_type, vectorStore,
                                         VectorBatch(runDoc[r], chunks[r]))
       IN /\ vectorStore' = out.store
          /\ IF out.raised.is
             THEN /\ caught' = [caught EXCEPT ![r] = out.raised]
                  /\ ipc' = [ipc EXCEPT ![r] = "except"]
             ELSE /\ ipc' = [ipc EXCEPT ![r] = "finish"]
                  /\ UNCHANGED caught
    /\ UNCHANGED <<kb, document, chunkRows, runDoc, mem, chunks, idx,
                   embedCalls, fault, rerun, runOutcome, runs, call, kbVars, agentVars, chunker>>

\* After the loop: connect or add_embeddings raises (the backend is down).
VectorStoreFails(r) ==
    /\ ipc[r] = "embedding"
    /\ idx[r] = Len(chunks[r])
    /\ kb.vector_db_type # "pgvector"
    /\ fault' = [fault EXCEPT ![r] = "store"]
    /\ caught' = [caught EXCEPT ![r] = Exception(StoreError)]
    /\ ipc' = [ipc EXCEPT ![r] = "except"]
    /\ UNCHANGED <<kb, document, chunkRows, vectorStore, runDoc, mem, chunks,
                   idx, embedCalls, rerun, runOutcome, runs, call, kbVars, agentVars, chunker>>

\* A variant that leaves chunk_count as it was loaded.
MarkDocumentCompletedStaleCount(m, n) ==
    [m EXCEPT !.is_embedded = TRUE, !.embedding_status = "completed"]

\* generate_embeddings_task: is_embedded = True, embedding_status =
\* 'completed', chunk_count = len(chunks)
MarkDocumentCompleted(m, n) ==
    [m EXCEPT !.is_embedded = TRUE,
              !.embedding_status = "completed",
              !.chunk_count = n]

\* generate_embeddings_task: the update of the document after add_embeddings;
\* document.save() writes every field of the in-memory instance.
CompleteIngest(r) ==
    /\ ipc[r] = "finish"
    /\ mem' = [mem EXCEPT ![r] = MarkDocumentCompleted(@, Len(chunks[r]))]
    /\ document' = [document EXCEPT ![runDoc[r]] = mem'[r]]
    /\ runOutcome' = [runOutcome EXCEPT ![r] = "returned"]
    /\ ipc' = [ipc EXCEPT ![r] = "done"]
    /\ UNCHANGED <<kb, chunkRows, vectorStore, runDoc, chunks, idx, embedCalls,
                   fault, caught, rerun, runs, call, kbVars, agentVars, chunker>>

\* A variant of the except branch that leaves the status alone.
MarkDocumentStillProcessing(m) == m

\* generate_embeddings_task: except Exception: embedding_status = 'failed'
MarkDocumentFailed(m) == [m EXCEPT !.embedding_status = "failed"]

\* generate_embeddings_task: the except branch; document.save() writes every
\* field of the in-memory instance, and the exception is re-raised.
FailIngest(r) ==
    /\ ipc[r] = "except"
    /\ mem' = [mem EXCEPT ![r] = MarkDocumentFailed(@)]
    /\ document' = [document EXCEPT ![runDoc[r]] = mem'[r]]
    /\ runOutcome' = [runOutcome EXCEPT ![r] = "raised"]
    /\ ipc' = [ipc EXCEPT ![r] = "done"]
    /\ UNCHANGED <<kb, chunkRows, vectorStore, runDoc, chunks, idx, embedCalls,
                   fault, caught, rerun, runs, call, kbVars, agentVars, chunker>>

\* The arguments of a call that takes none.
NoArguments == [ids |-> {}, query |-> "", top_k |-> 0, filter |-> NoFilter]

\* No call made yet.
NoCall == [op |-> "none", raised |-> NoException, info |-> <<>>,
           args |-> NoArguments, results |-> <<>>]

\* The ids generate_embeddings_task gives the chunks of document d.
DocumentIds(d) ==
    {VectorId(d, i - 1) :
        i \in 1..Len(ChunkText(document[d].content_len,
                               DJANGO_FORGE_AI_RAG_CHUNK_SIZE,
                               DJANGO_FORGE_AI_RAG_CHUNK_OVERLAP))}

\* The id lists a client passes to delete: the ids generate_embeddings_task
\* gave the chunks of a document, or the id "0".
DeleteArguments ==
    ({DocumentIds(d) : d \in Docs} \ {{}}) \cup {{<<0>>}}

\* A client calls connector.search(query_embedding, top_k, filter) on the
\* collection of kb.
Search(query, top_k, filter) ==
    LET out == ConnectorSearch(kb.vector_db_type, vectorStore, query, top_k, filter)
    IN /\ call' = [op |-> "search",
                   raised |-> out.raised,
                   info |-> <<>>,
                   args |-> [ids |-> {}, query |-> query, top_k |-> top_k,
                             filter |-> filter],
                   results |-> out.results]
       /\ vectorStore' = out.store
       /\ UNCHANGED <<kb, document, chunkRows, ipc, runDoc, mem, chunks, idx,
                      embedCalls, fault, caught, runOutcome, rerun, runs, kbVars,
                      agentVars, chunker>>

\* A client calls connector.delete(ids) on the collection of kb.
Delete(ids) ==
    /\ call' = [op |-> "delete",
                raised |-> ConnectorDelete(kb.vector_db_type, vectorStore, ids).raised,
                info |-> <<>>,
                args |-> [NoArguments EXCEPT !.ids = ids],
                results |-> <<>>]
    /\ vectorStore' = ConnectorDelete(kb.vector_db_type, vectorStore, ids).store
    /\ UNCHANGED <<kb, document, chunkRows, ipc, runDoc, mem, chunks, idx,
                   embedCalls, fault, caught, runOutcome, rerun, runs, kbVars,
                   agentVars, chunker>>

\* A client calls connector.get_collection_info() on the collection of kb.
CollectionInfo ==
    /\ call' = [op |-> "get_collection_info",
                raised |-> NoException,
                info |-> GetCollectionInfo(kb.vector_db_type, vectorStore),
                args |-> NoArguments,
                results |-> <<>>]
    /\ UNCHANGED <<kb, document, chunkRows, vectorStore, ipc, runDoc, mem,
                   chunks, idx, embedCalls, fault, caught, runOutcome, rerun,
                   runs, kbVars, agentVars, chunker>>

\* ------------------------------------------------------- knowledge bases

\* No row under the primary key.
NoRow == [exists |-> FALSE, is_active |-> FALSE, vector_db_type |-> "chroma",
          created_at |-> 0]

\* A KnowledgeBase instance with the fields given.
KnowledgeBase(is_active, vector_db_type, created_at) ==
    [exists |-> TRUE, is_active |-> is_active,
     vector_db_type |-> vector_db_type, created_at |-> created_at]

NoForm == [valid |-> FALSE, pk |-> 0, is_active |-> FALSE,
           vector_db_type |-> "chroma"]

NoSearch == [called |-> FALSE, kb |-> 0, candidates |-> {}, outcome |-> "none"]

\* KnowledgeBase.clean: ValidationError is raised
KnowledgeBaseClean(table, pk, is_active, vector_db_type) ==
    /\ is_active
    /\ \E k \in KbIds \ {pk} :
          /\ table[k].exists
          /\ table[k].is_active
          /\ table[k].vector_db_type = vector_db_type

\* Model.save() of an instance: an insert under a new primary key, with
\* created_at = now, or an update of the row.
SaveKnowledgeBase(table, clock, pk, is_active, vector_db_type) ==
    [table EXCEPT
        ![pk] = KnowledgeBase(is_active, vector_db_type,
                              IF table[pk].exists THEN table[pk].created_at
                                                  ELSE clock + 1)]

\* KnowledgeBase.objects.create(...): save() with no call of clean.
KnowledgeBaseCreate(k, is_active, vector_db_type) ==
    /\ ~kbTable[k].exists
    /\ kbTable' = SaveKnowledgeBase(kbTable, kbClock, k, is_active, vector_db_type)
    /\ kbClock' = kbClock + 1
    /\ UNCHANGED <<form, search, kb, document, chunkRows, vectorStore, ipc,
                   runDoc, mem, chunks, idx, embedCalls, fault, caught,
                   runOutcome, rerun, runs, call, agentVars, chunker>>

\* instance.save() on a loaded row, with is_active or vector_db_type changed
\* and no call of clean.
KnowledgeBaseSave(k, is_active, vector_db_type) ==
    /\ kbTable[k].exists
    /\ kbTable' = SaveKnowledgeBase(kbTable, kbClock, k, is_active, vector_db_type)
    /\ UNCHANGED <<kbClock, form, search, kb, document, chunkRows, vectorStore,
                   ipc, runDoc, mem, chunks, idx, embedCalls, fault, caught,
                   runOutcome, rerun, runs, call, agentVars, chunker>>

\* The admin's add or change form is submitted: full_clean() calls clean()
\* on the instance; a ValidationError rejects the form, otherwise the
\* validated instance waits for save_model.
AdminFullClean(s, k, is_active, vector_db_type) ==
    /\ ~form[s].valid
    /\ IF KnowledgeBaseClean(kbTable, k, is_active, vector_db_type)
       THEN UNCHANGED form
       ELSE form' = [form EXCEPT
                        ![s] = [valid |-> TRUE, pk |-> k, is_active |-> is_active,
                                vector_db_type |-> vector_db_type]]
    /\ UNCHANGED <<kbTable, kbClock, search, kb, document, chunkRows,
                   vectorStore, ipc, runDoc, mem, chunks, idx, embedCalls,
                   fault, caught, runOutcome, rerun, runs, call, agentVars,
                   chunker>>

\* ModelAdmin.save_model: obj.save() of the validated instance.
AdminSaveModel(s) ==
    /\ form[s].valid
    /\ kbTable' = SaveKnowledgeBase(kbTable, kbClock, form[s].pk,
                                    form[s].is_active, form[s].vector_db_type)
    /\ kbClock' = IF kbTable[form[s].pk].exists THEN kbClock ELSE kbClock + 1
    /\ form' = [form EXCEPT ![s] = NoForm]
    /\ UNCHANGED <<search, kb, document, chunkRows, vectorStore, ipc, runDoc,
                   mem, chunks, idx, embedCalls, fault, caught, runOutcome,
                   rerun, runs, call, agentVars, chunker>>

\* KnowledgeBase.objects.filter(is_active=True): the primary keys
ActiveKnowledgeBases(table) ==
    {k \in KbIds : table[k].exists /\ table[k].is_active}

\* .first() under Meta.ordering = ['-created_at']: the newest of the rows,
\* 0 for None.
First(table, rows) ==
    IF rows = {}
    THEN 0
    ELSE CHOOSE k \in rows :
            \A j \in rows : table[j].created_at <= table[k].created_at

\* semantic_search with no knowledge_base_name: the knowledge base is
\* resolved, [] is returned when there is none, otherwise connector.search
\* of its backend is called.
SemanticSearch ==
    /\ LET candidates == ActiveKnowledgeBases(kbTable)
           chosen == First(kbTable, candidates)
       IN search' =
             [called |-> TRUE,
              kb |-> chosen,
              candidates |-> candidates,
              outcome |->
                 IF chosen = 0
                 THEN "empty"
                 ELSE IF ConnectorSearch(kbTable[chosen].vector_db_type, {},
                                         "near_first", DefaultTopK, NoFilter).raised.is
                      THEN "raised"
                      ELSE "results"]
    /\ UNCHANGED <<kbTable, kbClock, form, kb, document, chunkRows,
                   vectorStore, ipc, runDoc, mem, chunks, idx, embedCalls,
                   fault, caught, runOutcome, rerun, runs, call, agentVars,
                   chunker>>

\* --------------------------------------------------------------- chunker

Max(a, b) == IF a < b THEN b ELSE a

\* A slice bound as Python reads it: counted from the end when negative,
\* clipped to the text.
SliceIndex(i, len) == IF i < 0 THEN Max(i + len, 0) ELSE Min(i, len)

\* A variant that does not clip the slice to the text.
SliceUnclipped(start, end, len) == <<start, end>>

\* text[start:end], as the pair of its offsets
Slice(start, end, len) ==
    <<SliceIndex(start, len), Max(SliceIndex(start, len), SliceIndex(end, len))>>

\* A variant that adds the overlap.
NextStartAddsOverlap(end, chunk_overlap) == end + chunk_overlap

\* _chunk_text: start = end - chunk_overlap
NextStart(end, chunk_overlap) == end - chunk_overlap

\* A variant that stops one character early.
WhileConditionEarly(start, len) == start + 1 < len

\* _chunk_text: while start < len(text)
WhileCondition(start, len) == start < len

\* The arguments _chunk_text is called with: every length, size and overlap up
\* to the bounds (overlaps of the size and more included), and a text of 25
\* characters with chunk_size = 10 and chunk_overlap = 2.
ChunkTextArguments ==
    [text_len : 0..MaxTextLen, chunk_size : 1..MaxChunkSize,
     chunk_overlap : 0..MaxChunkSize]
    \cup {[text_len |-> 25, chunk_size |-> 10, chunk_overlap |-> 2]}

\* The number of chunks after which a call is followed no further.
MaxChunks == MaxTextLen + 2

\* _chunk_text: one round of the while loop (the break repeats its condition).
ChunkTextLoop ==
    /\ chunker.pc = "while"
    /\ WhileCondition(chunker.start, chunker.text_len)
    /\ Len(chunker.chunks) < MaxChunks
    /\ LET end == chunker.start + chunker.chunk_size
       IN chunker' =
             [chunker EXCEPT
                 !.chunks = Append(@, Slice(chunker.start, end, chunker.text_len)),
                 !.start = NextStart(end, chunker.chunk_overlap)]
    /\ UNCHANGED <<agentVars, ragVars>>

\* _chunk_text: return chunks
ChunkTextReturn ==
    /\ chunker.pc = "while"
    /\ ~WhileCondition(chunker.start, chunker.text_len)
    /\ chunker' = [chunker EXCEPT !.pc = "return"]
    /\ UNCHANGED <<agentVars, ragVars>>

NoChunker ==
    [pc |-> "idle", text_len |-> 0, chunk_size |-> 1, chunk_overlap |-> 0,
     start |-> 0, chunks |-> <<>>]

\* ------------------------------------------------------- specifications

NewTask ==
    [status |-> "pending", result |-> <<>>, error |-> <<>>, iterations_used |-> 0]

NewDocument(len) ==
    [content_len |-> len, embedding_status |-> "pending", is_embedded |-> FALSE,
     chunk_count |-> 0]

NoOutcome == [returned |-> <<>>, raised |-> NoException]

\* The agent side: one validated configuration, one pending task, no worker
\* started.  The rag side stands still.
InitAgents ==
    /\ agent \in AgentConfigs
    /\ task = NewTask
    /\ taskLogs = <<>>
    /\ pc = [w \in Workers |-> "idle"]
    /\ iteration = [w \in Workers |-> 0]
    /\ conversation_history = [w \in Workers |-> <<>>]
    /\ response = [w \in Workers |-> <<>>]
    /\ tool_call = [w \in Workers |-> None]
    /\ tool_exc = [w \in Workers |-> NoException]
    /\ logBase = [w \in Workers |-> 0]
    /\ result = [w \in Workers |-> <<>>]
    /\ exc = [w \in Workers |-> NoException]
    /\ outcome = [w \in Workers |-> NoOutcome]
    /\ llmCalls = [w \in Workers |-> 0]
    /\ cancelSeen = [w \in Workers |-> 0]
    /\ executions = 0
    /\ gatewayCalls = [w \in Workers |-> <<>>]
    /\ kb = [vector_db_type |-> "chroma"]
    /\ document = [d \in Docs |-> NewDocument(0)]
    /\ chunkRows = EmptyBag
    /\ vectorStore = {}
    /\ ipc = [r \in Runs |-> "idle"]
    /\ runDoc = [r \in Runs |-> 1]
    /\ mem = [r \in Runs |-> NewDocument(0)]
    /\ chunks = [r \in Runs |-> <<>>]
    /\ idx = [r \in Runs |-> 0]
    /\ embedCalls = [r \in Runs |-> 0]
    /\ fault = [r \in Runs |-> "none"]
    /\ caught = [r \in Runs |-> NoException]
    /\ runOutcome = [r \in Runs |-> "none"]
    /\ rerun = [r \in Runs |-> FALSE]
    /\ runs = 0
    /\ call = NoCall
    /\ kbTable = [k \in KbIds |-> NoRow]
    /\ kbClock = 0
    /\ form = [s \in Admins |-> NoForm]
    /\ search = NoSearch
    /\ chunker = NoChunker

\* The rag side: one knowledge base of any backend type, two pending documents
\* of any of the lengths, no run started.  The agent side stands still.
InitRag ==
    /\ kb \in [vector_db_type : VectorDbTypes]
    /\ document \in [Docs -> {NewDocument(n) : n \in DocLengths}]
    /\ chunkRows = EmptyBag
    /\ vectorStore = {}
    /\ ipc = [r \in Runs |-> "idle"]
    /\ runDoc = [r \in Runs |-> 1]
    /\ mem = [r \in Runs |-> NewDocument(0)]
    /\ chunks = [r \in Runs |-> <<>>]
    /\ idx = [r \in Runs |-> 0]
    /\ embedCalls = [r \in Runs |-> 0]
    /\ fault = [r \in Runs |-> "none"]
    /\ caught = [r \in Runs |-> NoException]
    /\ runOutcome = [r \in Runs |-> "none"]
    /\ rerun = [r \in Runs |-> FALSE]
    /\ runs = 0
    /\ call = NoCall
    /\ kbTable = [k \in KbIds |-> NoRow]
    /\ kbClock = 0
    /\ form = [s \in Admins |-> NoForm]
    /\ search = NoSearch
    /\ chunker = NoChunker
    /\ agent = [max_iterations |-> 1, tools |-> <<>>, temperature |-> DefaultTemperature]
    /\ task = NewTask
    /\ taskLogs = <<>>
    /\ pc = [w \in Workers |-> "idle"]
    /\ iteration = [w \in Workers |-> 0]
    /\ conversation_history = [w \in Workers |-> <<>>]
    /\ response = [w \in Workers |-> <<>>]
    /\ tool_call = [w \in Workers |-> None]
    /\ tool_exc = [w \in Workers |-> NoException]
    /\ logBase = [w \in Workers |-> 0]
    /\ result = [w \in Workers |-> <<>>]
    /\ exc = [w \in Workers |-> NoException]
    /\ outcome = [w \in Workers |-> NoOutcome]
    /\ llmCalls = [w \in Workers |-> 0]
    /\ cancelSeen = [w \in Workers |-> 0]
    /\ executions = 0
    /\ gatewayCalls = [w \in Workers |-> <<>>]

NextAgents ==
    \/ \E w \in Workers : ExecuteTask(w)
    \/ \E w \in Workers : GetAgentResponse(w)
    \/ \E w \in Workers : GatewayFails(w)
    \/ \E w \in Workers : ExecuteTool(w)
    \/ \E w \in Workers : CompleteTask(w)
    \/ \E w \in Workers : FailTask(w)
    \/ CancelTask

SpecAgents == InitAgents /\ [][NextAgents]_vars

\* One execution of a pending task, with every answer of the gateway and with
\* tool callables that may raise.
NextTools ==
    \/ \E w \in Workers : pc[w] = "idle" /\ ExecuteTask(w)
    \/ \E w \in Workers : GetAgentResponseFrom(w, AllResponses)
    \/ \E w \in Workers : GatewayFails(w)
    \/ \E w \in Workers : ExecuteTool(w)
    \/ \E w \in Workers : ExecuteToolRaising(w)
    \/ \E w \in Workers : CompleteTask(w)
    \/ \E w \in Workers : FailTask(w)

SpecTools == InitAgents /\ [][NextTools]_vars

\* One execution of a pending task whose configuration was stored with any
\* values.
NextConfigs ==
    \/ \E cfg \in StorableConfigs : SaveAgentConfig(cfg)
    \/ \E w \in Workers : pc[w] = "idle" /\ ExecuteTask(w)
    \/ \E w \in Workers : GetAgentResponseFrom(w, Responses)
    \/ \E w \in Workers : GatewayFails(w)
    \/ \E w \in Workers : ExecuteTool(w)
    \/ \E w \in Workers : CompleteTask(w)
    \/ \E w \in Workers : FailTask(w)

SpecConfigs == InitAgents /\ [][NextConfigs]_vars


\* The rag side with each run slot used once, and a client that calls search,
\* delete and get_collection_info on the connector of the knowledge base.
NextStore ==
    \/ \E r \in Runs, d \in Docs : ipc[r] = "idle" /\ StartIngest(r, d)
    \/ \E r \in Runs : EmbedChunk(r)
    \/ \E r \in Runs : EmbedFails(r)
    \/ \E r \in Runs : AddEmbeddings(r)
    \/ \E r \in Runs : VectorStoreFails(r)
    \/ \E r \in Runs : CompleteIngest(r)
    \/ \E r \in Runs : FailIngest(r)
    \/ Search("near_first", DefaultTopK, NoFilter)
    \/ \E ids \in DeleteArguments : Delete(ids)
    \/ CollectionInfo

SpecStore == InitRag /\ [][NextStore]_vars

\* One worker that ingests documents one after the other, and a client that
\* searches the collection of the knowledge base with any of the queries,
\* limits and filters.
NextSearch ==
    \/ \E d \in Docs : StartIngest("r1", d)
    \/ EmbedChunk("r1")
    \/ EmbedFails("r1")
    \/ AddEmbeddings("r1")
    \/ VectorStoreFails("r1")
    \/ CompleteIngest("r1")
    \/ FailIngest("r1")
    \/ \E query \in Queries, top_k \in TopKs, filter \in Filters :
          Search(query, top_k, filter)

SpecSearch == InitRag /\ [][NextSearch]_vars

\* The KnowledgeBase table: no row, no form submitted, no search made.  The
\* agent side and the ingestion stand still.
InitKb ==
    /\ kbTable = [k \in KbIds |-> NoRow]
    /\ kbClock = 0
    /\ form = [s \in Admins |-> NoForm]
    /\ search = NoSearch
    /\ call = NoCall
    /\ kb = [vector_db_type |-> "chroma"]
    /\ document = [d \in Docs |-> NewDocument(0)]
    /\ chunkRows = EmptyBag
    /\ vectorStore = {}
    /\ ipc = [r \in Runs |-> "idle"]
    /\ runDoc = [r \in Runs |-> 1]
    /\ mem = [r \in Runs |-> NewDocument(0)]
    /\ chunks = [r \in Runs |-> <<>>]
    /\ idx = [r \in Runs |-> 0]
    /\ embedCalls = [r \in Runs |-> 0]
    /\ fault = [r \in Runs |-> "none"]
    /\ caught = [r \in Runs |-> NoException]
    /\ runOutcome = [r \in Runs |-> "none"]
    /\ rerun = [r \in Runs |-> FALSE]
    /\ runs = 0
    /\ chunker = NoChunker
    /\ agent = [max_iterations |-> 1, tools |-> <<>>, temperature |-> DefaultTemperature]
    /\ task = NewTask
    /\ taskLogs = <<>>
    /\ pc = [w \in Workers |-> "idle"]
    /\ iteration = [w \in Workers |-> 0]
    /\ conversation_history = [w \in Workers |-> <<>>]
    /\ response = [w \in Workers |-> <<>>]
    /\ tool_call = [w \in Workers |-> None]
    /\ tool_exc = [w \in Workers |-> NoException]
    /\ logBase = [w \in Workers |-> 0]
    /\ result = [w \in Workers |-> <<>>]
    /\ exc = [w \in Workers |-> NoException]
    /\ outcome = [w \in Workers |-> NoOutcome]
    /\ llmCalls = [w \in Workers |-> 0]
    /\ cancelSeen = [w \in Workers |-> 0]
    /\ executions = 0
    /\ gatewayCalls = [w \in Workers |-> <<>>]

NextKb ==
    \/ \E k \in KbIds, a \in BOOLEAN, t \in VectorDbTypes :
          KnowledgeBaseCreate(k, a, t)
    \/ \E k \in KbIds, a \in BOOLEAN, t \in VectorDbTypes :
          KnowledgeBaseSave(k, a, t)
    \/ \E s \in Admins, k \in KbIds, a \in BOOLEAN, t \in VectorDbTypes :
          AdminFullClean(s, k, a, t)
    \/ \E s \in Admins : AdminSaveModel(s)
    \/ SemanticSearch

SpecKb == InitKb /\ [][NextKb]_vars

NextRag ==
    \/ \E r \in Runs, d \in Docs : StartIngest(r, d)
    \/ \E r \in Runs : EmbedChunk(r)
    \/ \E r \in Runs : EmbedFails(r)
    \/ \E r \in Runs : AddEmbeddings(r)
    \/ \E r \in Runs : VectorStoreFails(r)
    \/ \E r \in Runs : CompleteIngest(r)
    \/ \E r \in Runs : FailIngest(r)

SpecRag == InitRag /\ [][NextRag]_vars

\* _chunk_text called with any of the arguments: chunks = [], start = 0.  The
\* agent side and the rag side stand still.
InitChunker ==
    /\ \E a \in ChunkTextArguments :
          chunker = [pc |-> "while", text_len |-> a.text_len,
                     chunk_size |-> a.chunk_size, chunk_overlap |-> a.chunk_overlap,
                     start |-> 0, chunks |-> <<>>]
    /\ agent = [max_iterations |-> 1, tools |-> <<>>, temperature |-> DefaultTemperature]
    /\ task = NewTask
    /\ taskLogs = <<>>
    /\ pc = [w \in Workers |-> "idle"]
    /\ iteration = [w \in Workers |-> 0]
    /\ conversation_history = [w \in Workers |-> <<>>]
    /\ response = [w \in Workers |-> <<>>]
    /\ tool_call = [w \in Workers |-> None]
    /\ tool_exc = [w \in Workers |-> NoException]
    /\ logBase = [w \in Workers |-> 0]
    /\ result = [w \in Workers |-> <<>>]
    /\ exc = [w \in Workers |-> NoException]
    /\ outcome = [w \in Workers |-> NoOutcome]
    /\ llmCalls = [w \in Workers |-> 0]
    /\ cancelSeen = [w \in Workers |-> 0]
    /\ executions = 0
    /\ gatewayCalls = [w \in Workers |-> <<>>]
    /\ kb = [vector_db_type |-> "chroma"]
    /\ document = [d \in Docs |-> NewDocument(0)]
    /\ chunkRows = EmptyBag
    /\ vectorStore = {}
    /\ ipc = [r \in Runs |-> "idle"]
    /\ runDoc = [r \in Runs |-> 1]
    /\ mem = [r \in Runs |-> NewDocument(0)]
    /\ chunks = [r \in Runs |-> <<>>]
    /\ idx = [r \in Runs |-> 0]
    /\ embedCalls = [r \in Runs |-> 0]
    /\ fault = [r \in Runs |-> "none"]
    /\ caught = [r \in Runs |-> NoException]
    /\ runOutcome = [r \in Runs |-> "none"]
    /\ rerun = [r \in Runs |-> FALSE]
    /\ runs = 0
    /\ call = NoCall
    /\ kbTable = [k \in KbIds |-> NoRow]
    /\ kbClock = 0
    /\ form = [s \in Admins |-> NoForm]
    /\ search = NoSearch

NextChunker ==
    \/ ChunkTextLoop
    \/ ChunkTextReturn

SpecChunker == InitChunker /\ [][NextChunker]_vars

\* ---------------------------------------------------------------- claims

TerminalStatuses == {"completed", "failed", "cancelled"}

\* C1: an execution of execute_task makes at most max_iterations generate()
\* calls, and once it has made that many it is never at the head of the loop
\* again, whatever the responses hold.
C1_AtMostMaxIterationsCalls ==
    \A w \in Workers :
        /\ llmCalls[w] <= agent.max_iterations
        /\ pc[w] = "loop" => llmCalls[w] < agent.max_iterations

\* Every response of a two-round execution held a tool call and the loop is over.
C1_Witness ==
    \E w \in Workers :
        /\ agent.max_iterations >= 2
        /\ pc[w] = "mark_completed"
        /\ tool_call[w].found
        /\ llmCalls[w] = agent.max_iterations

C3_StatusForwardOnly ==
    [][task.status \in TerminalStatuses
          => task'.status \notin {"running", "pending"}]_vars

\* C4: execute_task ends in one of two ways: with no exception the task is
\* marked completed with the text it returns; with an exception the task is
\* marked failed with the exception's message and the exception is re-raised.
C4_ExecuteTaskOutcome ==
    [][\A w \in Workers :
          (pc[w] # "done" /\ pc'[w] = "done") =>
             IF exc[w].is
             THEN /\ task'.status = "failed"
                  /\ task'.error = exc[w].msg
                  /\ outcome'[w] = [returned |-> <<>>, raised |-> exc[w]]
             ELSE /\ task'.status = "completed"
                  /\ task'.result = result[w]
                  /\ outcome'[w] = [returned |-> result[w], raised |-> NoException]]_vars

\* A second execution failed on the gateway after a first one had completed.
C4_Witness ==
    \E w \in Workers :
        /\ pc[w] = "done"
        /\ outcome[w].raised = Exception(GatewayError)
        /\ task.status = "failed"
        /\ task.error = GatewayError
        /\ task.result # <<>>

\* C5: once cancelled is written while an execution is in flight, that
\* execution makes no gateway call in a later iteration and does not overwrite
\* the cancelled status.
C5_CancelHonoured ==
    [][\A w \in Workers :
          cancelSeen[w] > 0 =>
             /\ llmCalls'[w] > llmCalls[w] => iteration[w] <= cancelSeen[w]
             /\ (pc[w] # "done" /\ pc'[w] = "done") => task'.status = "cancelled"]_vars

\* C6: over any sequence of ingestion runs, a document's embedding_status
\* never goes from completed or failed back to processing or pending.
C6_StatusNeverReverses ==
    [][\A d \in Docs :
          document[d].embedding_status \in {"completed", "failed"}
             => document'[d].embedding_status \notin {"processing", "pending"}]_vars

\* C7: no two DocumentChunk rows have the same (document, chunk_index), under
\* any interleaving of runs.
C7_UniqueChunkIndex ==
    \A x \in BagToSet(chunkRows) :
        /\ CopiesIn(x, chunkRows) = 1
        /\ \A y \in BagToSet(chunkRows) :
              (x.document = y.document /\ x.chunk_index = y.chunk_index) => x = y

\* Two runs of one document overlap, and the insert of a chunk index the other
\* run had created was refused.
C7_Witness ==
    \E r, q \in Runs :
        /\ r # q
        /\ runDoc[r] = runDoc[q]
        /\ ipc[r] = "except"
        /\ caught[r] = Exception(IntegrityError)
        /\ ipc[q] = "embedding"

\* C8: a run started on a failed document that kept chunk rows, in which
\* neither the gateway nor the vector store fails, ends with the document
\* completed.
C8_RerunCompletes ==
    \A r \in Runs :
        ( /\ rerun[r]
          /\ ipc[r] = "done"
          /\ fault[r] = "none"
          /\ kb.vector_db_type # "pgvector"
          /\ Len(chunks[r]) > 0 )
        => document[runDoc[r]].embedding_status = "completed"

\* C9: when embed() fails for a chunk, the run has made no embed call after
\* that one (none repeated, none for a later chunk), it goes to the except
\* branch, which sets embedding_status to failed and re-raises.
C9_EmbedFailureAborts ==
    /\ [](\A r \in Runs :
             fault[r] = "embed" =>
                /\ ipc[r] \in {"except", "done"}
                /\ embedCalls[r] = idx[r] + 1
                /\ caught[r] = Exception(EmbedError)
                /\ ipc[r] = "done" =>
                      /\ mem[r].embedding_status = "failed"
                      /\ runOutcome[r] = "raised")
    /\ [][\A r \in Runs :
             (fault[r] = "embed" /\ ipc[r] = "except" /\ ipc'[r] = "done")
                => document'[runDoc[r]].embedding_status = "failed"]_vars

\* embed() failed on the second chunk of a document, after the first chunk's
\* row had been created, and the run is over.
C9_Witness ==
    \E r \in Runs :
        /\ fault[r] = "embed"
        /\ ipc[r] = "done"
        /\ Len(chunks[r]) = 2
        /\ idx[r] = 1
        /\ embedCalls[r] = 2
        /\ document[runDoc[r]].embedding_status = "failed"

\* C10: for every document, the vector store holds either none of its vectors
\* or one for each of its chunks.
C10_AllOrNothing ==
    \A d \in Docs :
        LET points == {p \in vectorStore : p.document_id = d}
            n == Len(ChunkText(document[d].content_len,
                               DJANGO_FORGE_AI_RAG_CHUNK_SIZE,
                               DJANGO_FORGE_AI_RAG_CHUNK_OVERLAP))
        IN \/ points = {}
           \/ {p.chunk_index : p \in points} = 0..(n - 1)

\* The directive of resp: the text after the first marker, up to the line break.
Directive(resp) == SplitFirst(Strip(SplitSecond(resp, "TOOL_CALL:")), "\n")

\* resp holds a directive with no parentheses, or with an opening and no
\* closing parenthesis.
MalformedDirective(resp) ==
    /\ "TOOL_CALL:" \in Range(resp)
    /\ \/ "(" \notin Range(Directive(resp))
       \/ ")" \notin Range(SubSeq(Directive(resp),
                                  IndexOf(Directive(resp), "(") + 1,
                                  Len(Directive(resp))))

\* The log rows of the execution worker w is in (or has ended).
ExecutionLogs(w) == SubSeq(taskLogs, logBase[w] + 1, Len(taskLogs))

\* The content of the last entry of the conversation.
LastContent(history) == history[Len(history)].content

\* The name the tool call gives is not both recognized and in the tool list.
NotOffered(tc) ==
    ~(/\ Len(tc.tool) = 1
      /\ tc.tool[1] \in RecognizedTools
      /\ tc.tool[1] \in Range(agent.tools))

\* C16: a response whose directive has no closing parenthesis, or no
\* parentheses, holds no tool call: no tool is executed for it, it is the
\* final answer and the loop ends at that iteration.
C16_MalformedIsNoToolCall ==
    \A w \in Workers :
        MalformedDirective(response[w]) =>
            /\ ~tool_call[w].found
            /\ pc[w] \in {"mark_completed", "done"}
            /\ result[w] = response[w]

\* C17: when a tool raises at iteration k, _execute_tool appends one row
\* tool_{name}_error for iteration k, the text "Error executing tool ..." is
\* the next prompt, the loop goes on to iteration k + 1 when k < max_iterations,
\* and the task is not failed by it: a failed task carries the gateway's error.
C17_ToolErrorContained ==
    /\ [][\A w \in Workers :
             (pc[w] = "execute_tool" /\ pc'[w] # "execute_tool" /\ tool_exc'[w].is) =>
                LET msg == <<"Error executing tool ">> \o tool_call[w].tool
                              \o <<": ">> \o tool_exc'[w].msg
                IN /\ taskLogs' =
                         Append(taskLogs,
                                [iteration |-> iteration[w],
                                 action |-> <<"tool_">> \o tool_call[w].tool \o <<"_error">>,
                                 observation |-> msg])
                   /\ LastContent(conversation_history'[w]) = <<"Tool result: ">> \o msg
                   /\ iteration[w] < agent.max_iterations =>
                         pc'[w] = "loop" /\ iteration'[w] = iteration[w] + 1
                   /\ pc'[w] \in {"loop", "mark_completed"}
                   /\ ~exc'[w].is
                   /\ task'.status = task.status]_vars
    /\ [](task.status = "failed" => task.error = GatewayError)

\* A tool raised in the first round and the loop is at the head of the second.
C17_Witness ==
    \E w \in Workers :
        /\ tool_exc[w].is
        /\ pc[w] = "loop"
        /\ iteration[w] = 2
        /\ taskLogs[Len(taskLogs)].action = <<"tool_", "web_search", "_error">>

\* C18: every tool invocation an extracted tool call asks for appends exactly
\* one row of its own, tool_{name} or tool_{name}_error, for that iteration,
\* whether the tool returns, raises or is not available.
C18_OneLogPerInvocation ==
    [][\A w \in Workers :
          (pc[w] = "execute_tool" /\ pc'[w] # "execute_tool") =>
             /\ Len(taskLogs') = Len(taskLogs) + 1
             /\ taskLogs'[Len(taskLogs')].iteration = iteration[w]
             /\ taskLogs'[Len(taskLogs')].action \in
                   { <<"tool_">> \o tool_call[w].tool,
                     <<"tool_">> \o tool_call[w].tool \o <<"_error">> }]_vars

\* C19: a tool call whose name is not recognized or not in the tool list does
\* not raise and does not fail the task: the message "Error: Tool '...' not
\* available" is the tool result fed back, and the loop continues.
C19_UnavailableToolMessage ==
    [][\A w \in Workers :
          ( /\ pc[w] = "execute_tool"
            /\ pc'[w] # "execute_tool"
            /\ NotOffered(tool_call[w]) ) =>
             /\ ~tool_exc'[w].is
             /\ ~exc'[w].is
             /\ LastContent(conversation_history'[w]) =
                   <<"Tool result: ", "Error: Tool '">> \o tool_call[w].tool
                      \o <<"' not available">>
             /\ iteration[w] < agent.max_iterations =>
                   pc'[w] = "loop" /\ iteration'[w] = iteration[w] + 1
             /\ pc'[w] \in {"loop", "mark_completed"}
             /\ task'.status = task.status]_vars

\* An unrecognized name of the tool list in the first round, a recognized name
\* that is not in the list in the second, each answered with the message.
C19_Witness ==
    \E w \in Workers :
        /\ pc[w] = "mark_completed"
        /\ Len(conversation_history[w]) = 5
        /\ conversation_history[w][3].content =
              <<"Tool result: ", "Error: Tool '", "calculator", "' not available">>
        /\ conversation_history[w][5].content =
              <<"Tool result: ", "Error: Tool '", "database_query", "' not available">>
        /\ result[w] = conversation_history[w][5].content

\* C20: within one execution the rows are appended in non-decreasing iteration
\* order, each gateway call that answers has exactly one llm_response row for its
\* iteration, and that row comes before every tool_* row of the iteration.
C20_LogOrder ==
    \A w \in Workers :
        LET logs == ExecutionLogs(w)
            answered == llmCalls[w] - (IF exc[w].is THEN 1 ELSE 0)
            IsLlm(i) == logs[i].action = <<"llm_response">>
        IN pc[w] # "idle" =>
             /\ \A i, j \in 1..Len(logs) :
                   i < j => logs[i].iteration <= logs[j].iteration
             /\ \A k \in 1..answered :
                   Cardinality({i \in 1..Len(logs) :
                                   IsLlm(i) /\ logs[i].iteration = k}) = 1
             /\ Cardinality({i \in 1..Len(logs) : IsLlm(i)}) = answered
             /\ \A i \in 1..Len(logs) :
                   ~IsLlm(i) =>
                      \E j \in 1..(i - 1) :
                         IsLlm(j) /\ logs[j].iteration = logs[i].iteration

\* Two rounds, each with its llm_response row and then its tool row, the
\* second an error row.
C20_Witness ==
    \E w \in Workers :
        /\ pc[w] = "mark_completed"
        /\ Len(ExecutionLogs(w)) = 4
        /\ ExecutionLogs(w)[3].action = <<"llm_response">>
        /\ ExecutionLogs(w)[4].action = <<"tool_", "web_search", "_error">>
        /\ ExecutionLogs(w)[4].iteration = 2

\* The call has returned and was made with 0 <= chunk_overlap < chunk_size.
ReturnedValid ==
    /\ chunker.pc = "return"
    /\ 0 <= chunker.chunk_overlap
    /\ chunker.chunk_overlap < chunker.chunk_size

\* ceil(a / b) for b > 0
CeilDiv(a, b) == -((-a) \div b)

\* C11: ingesting a document with empty content creates no chunk row, makes no
\* embed call and ends with embedding_status completed, on a backend that
\* stores vectors.
C11_EmptyDocumentCompletes ==
    \A r \in Runs :
        ( /\ ipc[r] = "done"
          /\ mem[r].content_len = 0
          /\ kb.vector_db_type # "pgvector" )
        => /\ document[runDoc[r]].embedding_status = "completed"
           /\ RowsOf(runDoc[r]) = {}
           /\ embedCalls[r] = 0

\* C12: for 0 <= O < S the chunks cover the text with no gap: the first chunk
\* starts at offset 0, each next chunk starts at or before the end of the one
\* before it, and every position of the text lies in a chunk.
C12_ContiguousCoverage ==
    ReturnedValid =>
        LET c == chunker.chunks
        IN /\ chunker.text_len > 0 => (Len(c) >= 1 /\ c[1][1] = 0)
           /\ \A i \in 2..Len(c) : c[i][1] <= c[i - 1][2]
           /\ \A p \in 0..(chunker.text_len - 1) :
                 \E i \in 1..Len(c) : c[i][1] <= p /\ p < c[i][2]

\* A text of 25 characters in overlapping chunks, the call returned.
C12_Witness ==
    /\ ReturnedValid
    /\ chunker.text_len = 25
    /\ chunker.chunk_overlap = 2
    /\ Len(chunker.chunks) = 4
    /\ chunker.chunks[2] = <<8, 18>>

\* C13: for 0 <= O < S the number of chunks is ceil((len(T) - O) / (S - O)).
C13_ChunkCountFormula ==
    ReturnedValid =>
        Len(chunker.chunks) =
            CeilDiv(chunker.text_len - chunker.chunk_overlap,
                    chunker.chunk_size - chunker.chunk_overlap)

\* C13, amended: for 0 <= O < S the number of chunks is ceil(len(T) / (S - O)).
C13_ChunkCount ==
    ReturnedValid =>
        Len(chunker.chunks) =
            CeilDiv(chunker.text_len, chunker.chunk_size - chunker.chunk_overlap)

\* A text no longer than the overlap: one chunk, where the formula with
\* len(T) - O gives none.
C13_Witness ==
    /\ ReturnedValid
    /\ chunker.text_len > 0
    /\ chunker.text_len <= chunker.chunk_overlap
    /\ Len(chunker.chunks) = 1

\* C14: for 0 <= O < S chunk i (from 0) is T[i*(S-O) : i*(S-O)+S], there is a
\* chunk for exactly the i with i*(S-O) < len(T), and the result is the value
\* of a function of (T, S, O); S = 10, O = 2, len(T) = 25 gives the start
\* offsets 0, 8, 16, 24 and a last chunk of one character.
C14_ChunkBoundaries ==
    ReturnedValid =>
        LET c == chunker.chunks
            len == chunker.text_len
            step == chunker.chunk_size - chunker.chunk_overlap
        IN /\ \A i \in 0..len : (i < Len(c)) <=> (i * step < len)
           /\ Len(c) <= len
           /\ \A i \in 0..(Len(c) - 1) :
                 c[i + 1] = <<i * step, Min(i * step + chunker.chunk_size, len)>>
           /\ c = ChunkText(len, chunker.chunk_size, chunker.chunk_overlap)
           /\ (len = 25 /\ chunker.chunk_size = 10 /\ chunker.chunk_overlap = 2) =>
                 c = << <<0, 10>>, <<8, 18>>, <<16, 25>>, <<24, 25>> >>

\* The call with S = 10, O = 2 and 25 characters has returned its four chunks.
C14_Witness ==
    /\ chunker.pc = "return"
    /\ chunker.text_len = 25
    /\ chunker.chunk_size = 10
    /\ chunker.chunk_overlap = 2
    /\ chunker.chunks[4] = <<24, 25>>

\* C15: with chunk_overlap >= chunk_size the configuration is rejected before
\* a chunk is produced: the chunker never runs a round of its loop with it.
C15_InvalidOverlapRejected ==
    chunker.chunk_overlap >= chunker.chunk_size =>
        chunker.chunks = <<>> /\ chunker.start = 0

\* The number of llm_response rows among the rows of the execution of w.
LlmResponseRows(w) ==
    Cardinality({i \in 1..Len(ExecutionLogs(w)) :
                    ExecutionLogs(w)[i].action = <<"llm_response">>})

\* C21: when the response of iteration k is the first without the marker
\* TOOL_CALL:, the execution ends with the task completed, result that
\* response, iterations_used = k and k llm_response rows of this execution;
\* with max_iterations = 1 that is one iteration and one log row.
C21_FinalAnswerEndsTask ==
    \A w \in Workers :
        ( /\ pc[w] = "done"
          /\ ~exc[w].is
          /\ "TOOL_CALL:" \notin Range(response[w]) ) =>
            LET k == iteration[w]
                logs == ExecutionLogs(w)
            IN /\ k \in 1..agent.max_iterations
               /\ llmCalls[w] = k
               /\ task.status = "completed"
               /\ task.result = response[w]
               /\ outcome[w].returned = response[w]
               /\ task.iterations_used = k
               /\ LlmResponseRows(w) = k
               /\ logs[Len(logs)] = LlmResponseLog(k, response[w])
               /\ \A i \in 1..(Len(logs) - 1) :
                     logs[i].action = <<"llm_response">> =>
                        "TOOL_CALL:" \in Range(logs[i].observation)
               /\ agent.max_iterations = 1 => Len(logs) = 1

\* A tool call in the first round, the final answer in the second.
C21_Witness ==
    \E w \in Workers :
        /\ pc[w] = "done"
        /\ iteration[w] = 2
        /\ response[w] = <<"The", " ", "answer">>
        /\ task.status = "completed"
        /\ task.result = <<"The", " ", "answer">>
        /\ task.iterations_used = 2
        /\ Len(ExecutionLogs(w)) = 3

\* Every response of the execution of w holds a well-formed directive that
\* names a tool of the agent's tool list, max_iterations responses were given,
\* and no tool raised.
AllListedToolCalls(w) ==
    LET logs == ExecutionLogs(w)
    IN /\ LlmResponseRows(w) = agent.max_iterations
       /\ \A i \in 1..Len(logs) :
             IF logs[i].action = <<"llm_response">>
             THEN /\ "TOOL_CALL:" \in Range(logs[i].observation)
                  /\ ~MalformedDirective(logs[i].observation)
                  /\ Len(ExtractToolCall(logs[i].observation).tool) = 1
                  /\ ExtractToolCall(logs[i].observation).tool[1] \in Range(agent.tools)
             ELSE logs[i].action[Len(logs[i].action)] # "_error"

\* C22: when every response within max_iterations = N calls a tool of the
\* agent's tool list, the execution ends with the task completed,
\* iterations_used = N, result the last queued content ("Tool result: " and
\* the last tool output) and 2N log rows: N llm_response and N tool_{name},
\* one of each per iteration.
C22_ExhaustedLoopResult ==
    \A w \in Workers :
        (pc[w] = "done" /\ ~exc[w].is /\ AllListedToolCalls(w)) =>
            LET N == agent.max_iterations
                logs == ExecutionLogs(w)
            IN /\ task.status = "completed"
               /\ task.iterations_used = N
               /\ task.result = LastContent(conversation_history[w])
               /\ task.result =
                     <<"Tool result: ">> \o ExecuteToolResult(tool_call[w], tool_exc[w])
               /\ Len(logs) = 2 * N
               /\ \A k \in 1..N :
                     /\ logs[2 * k - 1].action = <<"llm_response">>
                     /\ logs[2 * k - 1].iteration = k
                     /\ logs[2 * k].action =
                           <<"tool_">> \o ExtractToolCall(logs[2 * k - 1].observation).tool
                     /\ logs[2 * k].iteration = k

\* The number of DocumentChunk rows of document d.
RowCount(d) == BagCardinality([x \in RowsOf(d) |-> CopiesIn(x, chunkRows)])

\* C23: in every state, in the middle of a run, after a failed run and with
\* two runs at once, the chunk_index values of the rows of a document are
\* exactly 0..n-1, n the number of its rows.
C23_ChunkIndexContiguous ==
    \A d \in Docs :
        {x.chunk_index : x \in RowsOf(d)} = 0..(RowCount(d) - 1)

\* A run of a two-chunk document failed at the second chunk and left row 0;
\* a second run of the document was refused its first insert.
C23_Witness ==
    \E r, q \in Runs :
        /\ r # q
        /\ runDoc[r] = runDoc[q]
        /\ ipc[r] = "done"
        /\ fault[r] = "embed"
        /\ idx[r] = 1
        /\ Len(chunks[r]) = 2
        /\ ipc[q] = "done"
        /\ caught[q] = Exception(IntegrityError)
        /\ RowCount(runDoc[r]) = 1

\* C24: for every DocumentChunk row, content is the slice
\* document.content[start_char:end_char] of the parent document, and
\* end_char - start_char is the configured chunk size for every chunk of the
\* document but the final one.
C24_OffsetsLocateContent ==
    \A x \in BagToSet(chunkRows) :
        LET len == document[x.document].content_len
            n == Len(ChunkText(len, DJANGO_FORGE_AI_RAG_CHUNK_SIZE,
                               DJANGO_FORGE_AI_RAG_CHUNK_OVERLAP))
        IN /\ x.content = Slice(x.start_char, x.end_char, len)
           /\ x.chunk_index < n - 1 =>
                 x.end_char - x.start_char = DJANGO_FORGE_AI_RAG_CHUNK_SIZE

\* The vectors of document d the store holds.
PointsOf(store, d) == {p \in store : p.document_id = d}

\* C25: the step that ends a successful run leaves the document with
\* is_embedded = true, embedding_status = completed and chunk_count = the
\* number of chunks, which is the number of DocumentChunk rows of the document
\* and the number of vectors the run passed to the store (on chroma, the
\* number of vectors of the document the store then holds).
C25_SuccessLeavesCounts ==
    [][\A r \in Runs :
          (ipc[r] = "finish" /\ ipc'[r] = "done") =>
             LET d == runDoc[r]
             IN /\ runOutcome'[r] = "returned"
                /\ document'[d].is_embedded
                /\ document'[d].embedding_status = "completed"
                /\ document'[d].chunk_count = Len(chunks[r])
                /\ document'[d].chunk_count = RowCount(d)
                /\ document'[d].chunk_count = Len(VectorBatch(d, chunks[r]))
                /\ kb.vector_db_type = "chroma" =>
                      document'[d].chunk_count =
                         Cardinality(PointsOf(vectorStore, d))]_vars

\* A run of a two-chunk document has returned: two rows, two vectors,
\* chunk_count 2.
C25_Witness ==
    \E r \in Runs :
        /\ ipc[r] = "done"
        /\ runOutcome[r] = "returned"
        /\ kb.vector_db_type = "chroma"
        /\ document[runDoc[r]].embedding_status = "completed"
        /\ document[runDoc[r]].is_embedded
        /\ document[runDoc[r]].chunk_count = 2
        /\ RowCount(runDoc[r]) = 2
        /\ Cardinality(PointsOf(vectorStore, runDoc[r])) = 2

\* C26: in every state of the KnowledgeBase table, for each backend type at
\* most one row has is_active = true, whatever creates and updates were
\* written and however they interleave.
C26_OneActivePerType ==
    \A t \in VectorDbTypes :
        Cardinality({k \in ActiveKnowledgeBases(kbTable) :
                        kbTable[k].vector_db_type = t}) <= 1

\* C27: a semantic_search call without a knowledge base name that finds an
\* active knowledge base resolves to the single active one: the rows it
\* chooses among are exactly one, the one it takes.
C27_ResolvesToSingleActive ==
    (search.called /\ search.candidates # {}) =>
        search.candidates = {search.kb}

\* C28: every vector is stored under the id made of its (document_id,
\* chunk_index), and once a document has been ingested successfully the store
\* holds one entry for each of its chunks, whatever other documents are
\* ingested into the same knowledge base (chroma or qdrant) afterwards.
C28_IdsKeepDocumentsApart ==
    kb.vector_db_type \in {"chroma", "qdrant"} =>
        /\ \A p \in vectorStore : p.id = VectorId(p.document_id, p.chunk_index)
        /\ \A p, q \in vectorStore :
              p.id = q.id =>
                 p.document_id = q.document_id /\ p.chunk_index = q.chunk_index
        /\ \A d \in Docs :
              document[d].is_embedded =>
                 LET n == Len(ChunkText(document[d].content_len,
                                        DJANGO_FORGE_AI_RAG_CHUNK_SIZE,
                                        DJANGO_FORGE_AI_RAG_CHUNK_OVERLAP))
                 IN /\ Cardinality(PointsOf(vectorStore, d)) = n
                    /\ {p.chunk_index : p \in PointsOf(vectorStore, d)} = 0..(n - 1)

\* C29: for each of the three connectors, the mapping get_collection_info()
\* returns holds the collection name and the member count.
C29_InfoHasNameAndCount ==
    call.op = "get_collection_info" =>
        /\ {"name", "count"} \subseteq DOMAIN call.info
        /\ call.info.name = CollectionName

\* C30: on a pgvector knowledge base add_embeddings, search and delete each
\* raise NotImplementedError and leave the collection as it was, so no vector
\* is ever stored, every ingestion run ends in the except branch with the
\* document failed, and no run returns or marks a document completed.
C30_PGVectorNeverCompletes ==
    /\ [](kb.vector_db_type = "pgvector" =>
             /\ vectorStore = {}
             /\ call.op = "search" => call.raised = Exception(SearchNotImplemented)
             /\ call.op = "delete" => call.raised = Exception(DeleteNotImplemented)
             /\ \A d \in Docs :
                   /\ ~document[d].is_embedded
                   /\ document[d].embedding_status # "completed"
             /\ \A r \in Runs :
                   /\ runOutcome[r] # "returned"
                   /\ ipc[r] # "finish")
    /\ [][kb.vector_db_type = "pgvector" =>
             \A r \in Runs :
                /\ (ipc[r] = "embedding" /\ idx[r] = Len(chunks[r])
                                         /\ ipc'[r] # "embedding") =>
                      /\ ipc'[r] = "except"
                      /\ caught'[r] = Exception(NotImplemented)
                      /\ vectorStore' = vectorStore
                /\ (ipc[r] # "done" /\ ipc'[r] = "done") =>
                      /\ runOutcome'[r] = "raised"
                      /\ document'[runDoc[r]].embedding_status = "failed"]_vars

\* On a pgvector knowledge base a run got through the embed loop of a
\* two-chunk document, add_embeddings raised and the document is failed; a
\* client's delete raised as well.
C30_Witness ==
    /\ kb.vector_db_type = "pgvector"
    /\ call.op = "delete"
    /\ call.raised.is
    /\ \E r \in Runs :
          /\ ipc[r] = "done"
          /\ idx[r] = 2
          /\ caught[r] = Exception(NotImplemented)
          /\ runOutcome[r] = "raised"
          /\ document[runDoc[r]].embedding_status = "failed"

\* The output of the tool invoked at iteration k of the execution of w: the
\* observation of the tool row of the iteration, or the message of
\* _execute_tool for a tool that is not available, which leaves no row.
ToolOutputAt(w, k) ==
    LET logs == ExecutionLogs(w)
        rows == {i \in 1..Len(logs) :
                    logs[i].iteration = k /\ logs[i].action # <<"llm_response">>}
        resp == {i \in 1..Len(logs) :
                    logs[i].iteration = k /\ logs[i].action = <<"llm_response">>}
    IN IF rows # {}
       THEN logs[CHOOSE i \in rows : TRUE].observation
       ELSE <<"Error: Tool '">>
               \o ExtractToolCall(logs[CHOOSE i \in resp : TRUE].observation).tool
               \o <<"' not available">>

\* C34: within one execution the prompt of the gateway call of iteration 1 is
\* the initial user prompt, the prompt of iteration k > 1 is "Tool result: "
\* followed by the output of the tool invoked at iteration k - 1, and every
\* call gets the same system prompt and the same temperature.
C34_PromptIsLatestUserTurn ==
    \A w \in Workers :
        LET calls == gatewayCalls[w]
        IN /\ Len(calls) = llmCalls[w]
           /\ \A k \in 1..Len(calls) :
                 /\ k = 1 => calls[k].prompt = BuildInitialPrompt
                 /\ k > 1 => calls[k].prompt =
                                <<"Tool result: ">> \o ToolOutputAt(w, k - 1)
                 /\ calls[k].system_prompt = calls[1].system_prompt
                 /\ calls[k].system_prompt = BuildSystemPrompt(agent)
                 /\ calls[k].temperature = calls[1].temperature
                 /\ calls[k].temperature = agent.temperature

\* The second gateway call of an execution got the output of the web search
\* of the first iteration.
C34_Witness ==
    \E w \in Workers :
        /\ Len(gatewayCalls[w]) = 2
        /\ gatewayCalls[w][1].prompt = BuildInitialPrompt
        /\ gatewayCalls[w][2].prompt =
              <<"Tool result: ", "Web search results for: ", "foo", " (placeholder)">>

\* C35: for every iteration number i the log of the task holds at most one
\* llm_response row with iteration = i, however often the task is executed.
C35_OneResponseRowPerIteration ==
    \A i \in 1..(MaxIterations + 1) :
        Cardinality({j \in 1..Len(taskLogs) :
                        /\ taskLogs[j].action = <<"llm_response">>
                        /\ taskLogs[j].iteration = i}) <= 1

\* A tool's code ran in the step: the tool returned its text or raised.
ToolCodeRan(tc, e) == e.is \/ ExecuteToolResult(tc, e) = RunTool(tc.tool[1], tc.args)

\* C36: a tool implementation runs only for a directive whose name is in the
\* tool list of the AgentConfig and is one of web_search, database_query,
\* file_read; for any other name the step runs no tool code: it raises
\* nothing, appends no tool row and queues no tool output.
C36_OnlyOfferedToolsRun ==
    [][\A w \in Workers :
          (pc[w] = "execute_tool" /\ pc'[w] # "execute_tool") =>
             LET tc == tool_call[w]
                 offered == /\ Len(tc.tool) = 1
                            /\ tc.tool[1] \in Range(agent.tools)
                            /\ tc.tool[1] \in {"web_search", "database_query", "file_read"}
             IN /\ ToolCodeRan(tc, tool_exc'[w]) => offered
                /\ Len(taskLogs') > Len(taskLogs) => offered
                /\ ~offered =>
                      /\ ~tool_exc'[w].is
                      /\ taskLogs' = taskLogs
                      /\ LastContent(conversation_history'[w]) =
                            <<"Tool result: ", "Error: Tool '">> \o tc.tool
                               \o <<"' not available">>]_vars

\* The directive named database_query, which the configuration does not
\* list: the round left the llm_response row only and the loop is at the head
\* of the second round.
C36_Witness ==
    \E w \in Workers :
        /\ pc[w] = "loop"
        /\ iteration[w] = 2
        /\ tool_call[w].tool = <<"database_query">>
        /\ Len(ExecutionLogs(w)) = 1
        /\ ~tool_exc[w].is

\* C37: at every point of an execution the number of llm_response rows the
\* execution has appended is the persisted iterations_used or
\* iterations_used + 1, and it is iterations_used when the execution has
\* ended, completed or failed by a gateway error.
C37_ResponseRowsTrackIterationsUsed ==
    \A w \in Workers :
        pc[w] # "idle" =>
            /\ LlmResponseRows(w) \in {task.iterations_used, task.iterations_used + 1}
            /\ pc[w] = "done" => LlmResponseRows(w) = task.iterations_used

\* C32: the stored AgentConfig always has its temperature within [0.0, 2.0]
\* and max_iterations >= 1, so an execution that has ended ran its loop with
\* max_iterations >= 1 and made at least one gateway call.
C32_InvalidConfigNeverStored ==
    /\ AgentConfigClean(agent)
    /\ \A w \in Workers :
          pc[w] \in {"mark_completed", "mark_failed", "done"} =>
             agent.max_iterations >= 1 /\ llmCalls[w] >= 1

\* C38: in every state of a Document, is_embedded is true exactly when
\* embedding_status is completed, whatever runs were made on it.
C38_EmbeddedIffCompleted ==
    \A d \in Docs :
        document[d].is_embedded <=> document[d].embedding_status = "completed"

\* C39: when two runs of one document overlap and one of them succeeds, the
\* record the document is left with once both have ended has embedding_status
\* completed, is_embedded true and chunk_count equal to the number of its
\* chunk rows.  The run q loaded the document before the run r wrote its
\* success: its in-memory copy has is_embedded false.
C39_LoserKeepsWinnersFields ==
    \A r, q \in Runs :
        ( /\ r # q
          /\ runDoc[r] = runDoc[q]
          /\ ipc[r] = "done" /\ runOutcome[r] = "returned"
          /\ ipc[q] = "done" /\ runOutcome[q] = "raised"
          /\ ~mem[q].is_embedded )
        => /\ document[runDoc[r]].embedding_status = "completed"
           /\ document[runDoc[r]].is_embedded
           /\ document[runDoc[r]].chunk_count = RowCount(runDoc[r])


\* C40: every DocumentChunk row created by ingestion satisfies
\* 0 <= start_char <= end_char <= len(document.content).
C40_OffsetsWithinContent ==
    \A x \in BagToSet(chunkRows) :
        /\ 0 <= x.start_char
        /\ x.start_char <= x.end_char
        /\ x.end_char <= document[x.document].content_len


\* C33: on the chroma and qdrant stores, delete called with the ids that
\* add_embeddings was given for a document removes exactly the entries stored
\* for that document, leaves every other entry unchanged, and brings the count
\* of get_collection_info back to its value without those entries.
C33_DeleteUndoesAdd ==
    [][ \A d \in Docs :
          ( /\ kb.vector_db_type \in {"chroma", "qdrant"}
            /\ call'.op = "delete"
            /\ call'.args.ids = DocumentIds(d)
            /\ call.op # "delete" \/ call.args # call'.args )
          => /\ vectorStore' = vectorStore \ PointsOf(vectorStore, d)
             /\ PointsOf(vectorStore', d) = {}
             /\ GetCollectionInfo(kb.vector_db_type, vectorStore').count
                  = GetCollectionInfo(kb.vector_db_type, vectorStore).count
                      - Cardinality(PointsOf(vectorStore, d))
      ]_vars

\* The member of the collection a formatted search result stands for.
EntryPoint(entry) ==
    [id |-> entry.id, text |-> entry.text,
     document_id |-> entry.metadata.document_id,
     chunk_index |-> entry.metadata.chunk_index]

\* C31: a search that returns gives at most top_k results, exactly
\* min(top_k, number of matching members) of them, each a matching member, none
\* twice, nearest first, and no matching member left out is nearer than one
\* returned.
C31_SearchReturnsTopK ==
    [][ ( /\ call'.op = "search"
          /\ ~call'.raised.is
          /\ \/ call.op # "search"
             \/ call.args # call'.args
             \/ call.results # call'.results )
        => LET res == call'.results
               top_k == call'.args.top_k
               query == call'.args.query
               m == Matching(vectorStore, call'.args.filter)
           IN /\ Len(res) <= top_k
              /\ Len(res) = Min(top_k, Cardinality(m))
              /\ \A i \in 1..Len(res) : EntryPoint(res[i]) \in m
              /\ \A i, j \in 1..Len(res) :
                    i < j => /\ res[i].id # res[j].id
                             /\ Distance(EntryPoint(res[i]), query)
                                  <= Distance(EntryPoint(res[j]), query)
              /\ \A p \in m :
                    (\A i \in 1..Len(res) : EntryPoint(res[i]) # p)
                    => \A i \in 1..Len(res) :
                          Distance(EntryPoint(res[i]), query) <= Distance(p, query)
      ]_vars

\* A search with top_k = 5 and no filter on a collection of two members has
\* returned two results.
C31_Witness ==
    /\ call.op = "search"
    /\ ~call.raised.is
    /\ call.args.top_k = DefaultTopK
    /\ call.args.filter = NoFilter
    /\ Cardinality(vectorStore) = 2
    /\ Len(call.results) = 2

====
